---- MODULE Spec2Model ----
(***************************************************************************)
(* Model of the Apple Health export parser:                                *)
(*   - apple_health_parser/parser.py : to_datetime, HealthRecord,          *)
(*     iter_health_records, _cleanup                                       *)
(*   - apple_health_parser/sleep.py  : SleepSegment, SleepSession,         *)
(*     iter_sleep_segments, build_sleep_sessions                           *)
(*   - api/main.py                   : _safe_parse, list_records,          *)
(*     list_sessions, list_vitals                                          *)
(* The specifications of the module, each over its own variables:          *)
(*   SpecRecord  : HealthRecord construction, round trip, window test      *)
(*   SpecReader  : the streaming reader iter_health_records                *)
(*   SpecSleep   : interval normalisation and session grouping             *)
(*   SpecSegment : SleepSegment construction                               *)
(*   SpecApi     : the HTTP handlers over the reader and the sleep pipeline*)
(*   SpecDict    : HealthRecord.to_dict and changes to what it returned    *)
(*   SpecNormalize : SleepSession._normalize, once and on its own output   *)
(*   SpecOrder   : SleepSession._normalize on a shorter horizon             *)
(*   SpecAwake   : SleepSession.awakenings, in half minutes                 *)
(***************************************************************************)
EXTENDS Integers, Sequences, FiniteSets, TLC

VARIABLES
    \* ---- SpecRecord ----
    src,        \* the input a record is built from: an element or a mapping
    record,     \* the HealthRecord built from src (NONE before construction)
    again,      \* HealthRecord.from_dict(record.to_dict()) (NONE before)
    verdict,    \* last intersects_time_window call: window and result
    \* ---- SpecReader ----
    args,       \* arguments of iter_health_records: types, start, end, exists
    pc,         \* position of the generator
    stack,      \* open elements of the in-memory tree, root first
    nread,      \* number of start tags the parser has read
    emitted,    \* records yielded so far, in order
    last,       \* outcome of the latest end event handled by the loop body
    seen,       \* the direct children of the root, as written in the file
    \* ---- SpecSleep ----
    input,      \* segments and gap handed to the sleep functions
    session,    \* result of SleepSession.from_segments
    sessions,   \* result of build_sleep_sessions
    \* ---- SpecSegment ----
    ctor,       \* arguments of SleepSegment(...)
    segment,    \* the segment constructed, or the error raised
    \* ---- SpecApi ----
    request,    \* the request: endpoint, query parameters, the file named
    response,   \* the response: status and body
    \* ---- SpecDict ----
    heap,       \* the dictionaries and lists in memory, by address
    held,       \* the record built: address of its attributes, their value then
    copies,     \* the mappings to_dict returned: address, value when returned
    writes,     \* number of changes the caller made to returned mappings
    \* ---- SpecNormalize ----
    raw,        \* the segments handed to SleepSession._normalize
    normalized, \* what _normalize returned for raw
    renormalized, \* what _normalize returned for its own output
    \* ---- SpecAwake ----
    night,      \* the segments handed to SleepSession.from_segments
    counted     \* the session built from night and its awakenings

recordVars == <<src, record, again, verdict>>
readerVars == <<args, pc, stack, nread, emitted, last, seen>>
sleepVars  == <<input, session, sessions>>
segmentVars == <<ctor, segment>>
apiVars == <<request, response>>
dictVars == <<heap, held, copies, writes>>
normVars == <<raw, normalized, renormalized>>
awakeVars == <<night, counted>>
laterVars == <<segmentVars, apiVars, dictVars, normVars, awakeVars>>
segmentFrame == <<recordVars, readerVars, sleepVars, apiVars, dictVars, normVars, awakeVars>>
apiFrame == <<recordVars, readerVars, sleepVars, segmentVars, dictVars, normVars, awakeVars>>
dictFrame == <<recordVars, readerVars, sleepVars, segmentVars, apiVars, normVars, awakeVars>>
normFrame == <<recordVars, readerVars, sleepVars, segmentVars, apiVars, dictVars, awakeVars>>
awakeFrame == <<recordVars, readerVars, sleepVars, segmentVars, apiVars, dictVars, normVars>>
vars == <<recordVars, readerVars, sleepVars, laterVars>>

(***************************************************************************)
(* Python values.  None, strings and lists are kept apart by the field     *)
(* that carries them, so that they can be compared with one another.       *)
(***************************************************************************)
NONE == [none |-> TRUE]
Str(s) == [str |-> s]
List(xs) == [list |-> xs]
IsStr(v) == DOMAIN v = {"str"}
IsList(v) == DOMAIN v = {"list"}

\* Python truthiness of None, str and list.
Truthy(v) ==
    IF IsStr(v) THEN v.str # ""
    ELSE IF IsList(v) THEN Len(v.list) > 0
    ELSE FALSE

\* Python `a or b`.
Or(a, b) == IF Truthy(a) THEN a ELSE b

\* dict.get(k): the value, or None.
Get(attrs, k) == IF k \in DOMAIN attrs THEN attrs[k] ELSE NONE

\* dict with d[k] = v assigned.
Put(attrs, k, v) == [x \in DOMAIN attrs \cup {k} |-> IF x = k THEN v ELSE attrs[x]]

(***************************************************************************)
(* Instants.  An instant is a number of hours since 2024-01-01T00:00Z; an  *)
(* absent instant (None) is NoInstant.  A datetime is always truthy.       *)
(***************************************************************************)
NoInstant == -1
Present(t) == t # NoInstant
OrT(a, b) == IF Present(a) THEN a ELSE b

(***************************************************************************)
(* to_datetime.  Strings are atomic here, so what each library parser      *)
(* makes of a text is tabulated: the wall clock it reads, the offset it    *)
(* reads, and which of the parsers accept the text.  to_datetime itself    *)
(* is the source's chain of attempts over these.                           *)
(***************************************************************************)
TimeTexts == {
    [text |-> "2024-01-01 01:00:00Z",       z |-> TRUE,  apple |-> FALSE, iso |-> TRUE,  naive |-> FALSE, aware |-> TRUE,  wall |-> 1, off |-> 0],
    [text |-> "2024-01-01 03:00:00 +0100",  z |-> FALSE, apple |-> TRUE,  iso |-> TRUE , naive |-> FALSE, aware |-> TRUE,  wall |-> 3, off |-> 1],
    [text |-> "2024-01-01T02:00:00-01:00",  z |-> FALSE, apple |-> FALSE, iso |-> TRUE,  naive |-> FALSE, aware |-> TRUE,  wall |-> 2, off |-> -1],
    [text |-> "2024-01-01T00:00:00",        z |-> FALSE, apple |-> FALSE, iso |-> TRUE,  naive |-> FALSE, aware |-> FALSE, wall |-> 0, off |-> 0],
    [text |-> "2024-1-1 4:00:00",           z |-> FALSE, apple |-> FALSE, iso |-> FALSE, naive |-> TRUE,  aware |-> FALSE, wall |-> 4, off |-> 0],
    [text |-> "soonZ",                      z |-> TRUE,  apple |-> FALSE, iso |-> FALSE, naive |-> FALSE, aware |-> FALSE, wall |-> 0, off |-> 0],
    [text |-> "not-a-date",                 z |-> FALSE, apple |-> FALSE, iso |-> FALSE, naive |-> FALSE, aware |-> FALSE, wall |-> 0, off |-> 0] }

Known(s) == \E e \in TimeTexts : e.text = s
Lex(s) == CHOOSE e \in TimeTexts : e.text = s

to_datetime_Epoch(value) ==
    IF ~IsStr(value) THEN NoInstant
    ELSE IF value.str = "" THEN NoInstant
    ELSE IF ~Known(value.str) THEN 0
    ELSE LET e == Lex(value.str) IN
         IF e.z THEN (IF e.iso THEN e.wall ELSE 0)
         ELSE IF e.apple THEN e.wall - e.off
         ELSE IF e.iso THEN (IF e.aware THEN e.wall - e.off ELSE e.wall)
         ELSE IF e.naive THEN e.wall
         ELSE 0

to_datetime(value) ==
    IF ~IsStr(value) THEN NoInstant
    ELSE IF value.str = "" \/ ~Known(value.str) THEN NoInstant
    ELSE LET e == Lex(value.str) IN
         IF e.z THEN (IF e.iso THEN e.wall ELSE NoInstant)
         ELSE IF e.apple THEN e.wall - e.off
         ELSE IF e.iso THEN (IF e.aware THEN e.wall - e.off ELSE e.wall)
         ELSE IF e.naive THEN e.wall
         ELSE NoInstant

(***************************************************************************)
(* HealthRecord                                                            *)
(***************************************************************************)
_determine_record_type(tag, attrs) ==
    LET typ == Get(attrs, "type") IN
    IF tag = Str("Workout") THEN Or(Get(attrs, "workoutActivityType"), tag)
    ELSE IF tag \in {Str("Correlation"), Str("Audiogram"), Str("ClinicalRecord")} THEN Or(typ, tag)
    ELSE IF tag \in {Str("ActivitySummary"), Str("Me"), Str("ExportDate")} THEN tag
    ELSE Or(typ, tag)

_derive_time_window_Swap(attrs) ==
    LET s == to_datetime(Get(attrs, "startDate"))
        c == to_datetime(Get(attrs, "creationDate"))
        e == to_datetime(Get(attrs, "endDate"))
        start_dt == OrT(s, OrT(c, e))
        end_dt == OrT(e, OrT(s, c))
    IN  IF Present(start_dt) /\ Present(end_dt) /\ end_dt < start_dt
        THEN <<end_dt, start_dt>>
        ELSE <<start_dt, end_dt>>

_derive_time_window(attrs) ==
    LET s == to_datetime(Get(attrs, "startDate"))
        c == to_datetime(Get(attrs, "creationDate"))
        e == to_datetime(Get(attrs, "endDate"))
        start_dt == OrT(s, OrT(c, e))
        end_dt == OrT(e, OrT(s, c))
    IN  IF Present(start_dt) /\ Present(end_dt) /\ end_dt < start_dt
        THEN <<start_dt, start_dt>>
        ELSE <<start_dt, end_dt>>

\* The mapping raised an AttributeError while it was flattened.
Raised(attrs) == "!AttributeError" \in DOMAIN attrs

RECURSIVE _parse_attributes(_)
RECURSIVE ParseChildren(_, _, _)

\* The loop of _parse_attributes over elem.iterchildren(), from child i on.
ParseChildren(attrs, children, i) ==
    IF i > Len(children) \/ Raised(attrs) THEN attrs
    ELSE LET child == children[i] IN
         IF child.tag = "MetadataEntry"
         THEN LET key == Get(child.attrib, "key")
                  value == Get(child.attrib, "value")
              IN  IF Truthy(key) /\ value # NONE
                  THEN ParseChildren(Put(attrs, key.str, value), children, i + 1)
                  ELSE ParseChildren(attrs, children, i + 1)
         ELSE LET parsed == _parse_attributes(child)
                  nested == IF "_tag" \in DOMAIN parsed THEN parsed
                            ELSE Put(parsed, "_tag", Str(child.tag))
                  old == Get(attrs, child.tag)
              IN  IF Raised(parsed) \/ (old # NONE /\ ~IsList(old))
                  THEN Put(attrs, "!AttributeError", NONE)
                  ELSE ParseChildren(
                         Put(attrs, child.tag,
                             List(IF old = NONE THEN <<nested>> ELSE Append(old.list, nested))),
                         children, i + 1)

_parse_attributes(elem) == ParseChildren(elem.attrib, elem.children, 1)

HealthRecord(tag, record_type, window, attrs) ==
    [tag |-> tag, record_type |-> record_type,
     start_dt |-> window[1], end_dt |-> window[2], attributes |-> attrs]

from_element_NoTypeKey(elem) ==
    LET parsed == _parse_attributes(elem)
        tag == Str(elem.tag)
        attrs1 == Put(parsed, "_tag", tag)
        record_type == _determine_record_type(tag, attrs1)
    IN  HealthRecord(tag, record_type, _derive_time_window(attrs1), attrs1)

from_element(elem) ==
    LET parsed == _parse_attributes(elem)
        tag == Str(elem.tag)
        attrs1 == Put(parsed, "_tag", tag)
        record_type == _determine_record_type(tag, attrs1)
        attrs2 == Put(attrs1, "_type", record_type)
    IN  HealthRecord(tag, record_type, _derive_time_window(attrs2), attrs2)

from_dict(d) ==
    LET tag == Or(Get(d, "_tag"), Or(Get(d, "tag"), Str("Record")))
        attrs1 == Put(d, "_tag", tag)
        record_type == Or(Get(attrs1, "_type"), _determine_record_type(tag, attrs1))
        attrs2 == Put(attrs1, "_type", record_type)
    IN  HealthRecord(tag, record_type, _derive_time_window(attrs2), attrs2)

to_dict(rec) == rec.attributes

intersects_time_window_NoEnd(rec, window_start, window_end) ==
    IF ~Present(window_start) /\ ~Present(window_end) THEN TRUE
    ELSE IF ~Present(rec.start_dt) \/ ~Present(rec.end_dt) THEN FALSE
    ELSE IF Present(window_start) /\ rec.end_dt < window_start THEN FALSE
    ELSE TRUE

intersects_time_window_Strict(rec, window_start, window_end) ==
    IF ~Present(window_start) /\ ~Present(window_end) THEN TRUE
    ELSE IF ~Present(rec.start_dt) \/ ~Present(rec.end_dt) THEN FALSE
    ELSE IF Present(window_start) /\ rec.end_dt <= window_start THEN FALSE
    ELSE IF Present(window_end) /\ rec.start_dt > window_end THEN FALSE
    ELSE TRUE

intersects_time_window(rec, window_start, window_end) ==
    IF ~Present(window_start) /\ ~Present(window_end) THEN TRUE
    ELSE IF ~Present(rec.start_dt) \/ ~Present(rec.end_dt) THEN FALSE
    ELSE IF Present(window_start) /\ rec.end_dt < window_start THEN FALSE
    ELSE IF Present(window_end) /\ rec.start_dt > window_end THEN FALSE
    ELSE TRUE

\* types_set is None (NONE) or [set |-> a non-empty set of strings].
is_any_of_types(rec, allowed) ==
    IF allowed = NONE THEN TRUE
    ELSE (rec.record_type \in allowed.set) \/ (rec.tag \in allowed.set)

(***************************************************************************)
(* Inputs of SpecRecord: attribute mappings and small elements.            *)
(***************************************************************************)
\* The mapping holding the entries of c that are present.
Mapping(c) == [k \in {x \in DOMAIN c : c[x] # NONE} |-> c[k]]

T0 == Str("2024-01-01T00:00:00")
T1 == Str("2024-01-01 01:00:00Z")
T2 == Str("2024-01-01 03:00:00 +0100")
T3 == Str("2024-01-01T02:00:00-01:00")
T4 == Str("2024-1-1 4:00:00")
TBad == Str("not-a-date")

RecordDicts ==
    { Mapping(c) : c \in
        [_tag : {NONE, Str(""), Str("Workout")},
         tag : {NONE, Str("Me")},
         _type : {NONE, Str(""), Str("X")},
         type : {NONE, Str("A")},
         workoutActivityType : {NONE, Str("B")},
         startDate : {NONE, T1, T3, TBad},
         creationDate : {NONE, T2, T4},
         endDate : {NONE, T0, T2}] }

Elem(tag, attrib, children) == [tag |-> tag, attrib |-> attrib, children |-> children]

Marker(key, value) == Elem("MetadataEntry", Mapping([key |-> key, value |-> value]), <<>>)

ChildElems ==
    { Marker(Str("type"), Str("B")),
      Marker(Str("startDate"), T0),
      Marker(Str(""), Str("v")),
      Marker(Str("HKTimeZone"), NONE),
      Elem("WorkoutEvent", Mapping([type |-> Str("E")]),
           <<Marker(Str("HKTimeZone"), Str("v"))>>) }

MaxChildren == 2

SeqsUpTo(S, n) == UNION { [1..k -> S] : k \in 0..n }

RecordElems ==
    { Elem(tag, Mapping(c), ch) :
        tag \in {"Record", "Workout", "ActivitySummary"},
        c \in [type : {NONE, Str("A")},
               workoutActivityType : {NONE, Str("B")},
               startDate : {NONE, T3},
               endDate : {NONE, T2}],
        ch \in SeqsUpTo(ChildElems, MaxChildren) }

WindowBounds == {NoInstant, 1, 2, 3}

(***************************************************************************)
(* Idle values of the variables a specification does not use.              *)
(***************************************************************************)
RecordIdle == src = NONE /\ record = NONE /\ again = NONE /\ verdict = NONE
ReaderIdle ==
    /\ args = NONE /\ pc = "idle" /\ stack = <<>> /\ nread = 0
    /\ emitted = <<>> /\ last = NONE /\ seen = <<>>
SleepIdle == input = NONE /\ session = NONE /\ sessions = NONE
SegmentIdle == ctor = NONE /\ segment = NONE
ApiIdle == request = NONE /\ response = NONE
DictIdle == heap = <<>> /\ held = NONE /\ copies = <<>> /\ writes = 0
NormIdle == raw = NONE /\ normalized = NONE /\ renormalized = NONE
AwakeIdle == night = NONE /\ counted = NONE
LaterIdle == SegmentIdle /\ ApiIdle /\ DictIdle /\ NormIdle /\ AwakeIdle
segmentOthersIdle == RecordIdle /\ ReaderIdle /\ SleepIdle /\ ApiIdle /\ DictIdle /\ NormIdle /\ AwakeIdle
apiOthersIdle == RecordIdle /\ ReaderIdle /\ SleepIdle /\ SegmentIdle /\ DictIdle /\ NormIdle /\ AwakeIdle
dictOthersIdle == RecordIdle /\ ReaderIdle /\ SleepIdle /\ SegmentIdle /\ ApiIdle /\ NormIdle /\ AwakeIdle
normOthersIdle == RecordIdle /\ ReaderIdle /\ SleepIdle /\ SegmentIdle /\ ApiIdle /\ DictIdle /\ AwakeIdle
awakeOthersIdle == RecordIdle /\ ReaderIdle /\ SleepIdle /\ SegmentIdle /\ ApiIdle /\ DictIdle /\ NormIdle

(***************************************************************************)
(* SpecRecord                                                              *)
(***************************************************************************)
RecordInit ==
    /\ src \in { [kind |-> "elem", elem |-> e] : e \in RecordElems }
               \cup { [kind |-> "dict", d |-> d] : d \in RecordDicts }
    /\ record = NONE /\ again = NONE /\ verdict = NONE
    /\ ReaderIdle /\ SleepIdle /\ LaterIdle

IsRecord(r) == "tag" \in DOMAIN r

\* HealthRecord.from_element(elem) or HealthRecord.from_dict(d).
Construct ==
    /\ record = NONE
    /\ record' = IF src.kind = "elem"
                 THEN (IF Raised(_parse_attributes(src.elem))
                       THEN [error |-> "AttributeError"]
                       ELSE from_element(src.elem))
                 ELSE from_dict(src.d)
    /\ UNCHANGED <<src, again, verdict, readerVars, sleepVars, laterVars>>

\* HealthRecord.from_dict(record.to_dict()).
RoundTrip ==
    /\ IsRecord(record) /\ again = NONE
    /\ again' = from_dict(to_dict(record))
    /\ UNCHANGED <<src, record, verdict, readerVars, sleepVars, laterVars>>

\* record.intersects_time_window(window_start, window_end).
Intersects ==
    /\ IsRecord(record) /\ verdict = NONE
    /\ \E ws \in WindowBounds, we \in WindowBounds :
         verdict' = [window_start |-> ws, window_end |-> we,
                     result |-> intersects_time_window(record, ws, we)]
    /\ UNCHANGED <<src, record, again, readerVars, sleepVars, laterVars>>

RecordNext == Construct \/ RoundTrip \/ Intersects

SpecRecord == RecordInit /\ [][RecordNext]_vars

\* C5: with no bound every record passes; with a bound, a record without a
\* derived window never passes, and a record with one is excluded exactly when
\* its end is strictly before the window start or its start strictly after the
\* window end, so that equality with a bound intersects.
C5_IntersectionRule ==
    verdict # NONE =>
        LET ws == verdict.window_start
            we == verdict.window_end
            s == record.start_dt
            e == record.end_dt
        IN  /\ (~Present(ws) /\ ~Present(we)) => verdict.result
            /\ (Present(ws) \/ Present(we)) =>
                 /\ (~Present(s) /\ ~Present(e)) => ~verdict.result
                 /\ (Present(s) /\ Present(e)) =>
                      (~verdict.result <=>
                         \/ (Present(ws) /\ e < ws)
                         \/ (Present(we) /\ s > we))

\* C5 witness: a record whose end equals the window start was tested and kept.
C5_Witness ==
    /\ verdict # NONE
    /\ Present(verdict.window_start)
    /\ record.end_dt = verdict.window_start
    /\ verdict.result

\* C6: the record rebuilt from a record's own mapping equals the record in
\* tag, record_type, start instant, end instant and attribute mapping, for a
\* record built from an element and for one built from a mapping.
C6_RoundTrip ==
    again # NONE =>
        /\ again.tag = record.tag
        /\ again.record_type = record.record_type
        /\ again.start_dt = record.start_dt
        /\ again.end_dt = record.end_dt
        /\ again.attributes = record.attributes

\* C6 witness: a record read from an element with a nested list and a
\* flattened metadata entry went through the round trip.
C6_Witness ==
    /\ again # NONE
    /\ src.kind = "elem"
    /\ "WorkoutEvent" \in DOMAIN record.attributes
    /\ Get(record.attributes, "type") = Str("B")

(***************************************************************************)
(* SpecReader: iter_health_records.  The parser reads the file            *)
(* incrementally: a start tag opens an element in the in-memory tree, an   *)
(* end tag is the "end" event the loop body handles.                       *)
(***************************************************************************)
MaxElems == 3

RootTag == "HealthData"

EmptyMap == Mapping([none |-> NONE])

\* What a start tag below the root may be: its tag and its own attributes.
ElemChoices ==
    { Elem("Record", Mapping([type |-> Str("A")]), <<>>),
      Elem("Record", Mapping([type |-> Str("B"), startDate |-> T3, endDate |-> T1]), <<>>),
      Elem("Record", Mapping([type |-> Str("B"), startDate |-> T1, endDate |-> T1]), <<>>),
      Elem("Workout", Mapping([type |-> Str("A"), workoutActivityType |-> Str("B")]), <<>>),
      Marker(Str("type"), Str("B")),
      Elem(RootTag, EmptyMap, <<>>) }

ArgTypes == {NONE, [set |-> {}], [set |-> {Str("B")}]}
ArgStarts == {NONE, T2, TBad}
ArgEnds == {NONE, T1, T3, TBad}

\* types_set = set(types) if types else None
TypesSet(a) == IF a.types = NONE \/ a.types.set = {} THEN NONE ELSE a.types

\* The bounds given, both parsed, with the end before the start.
Reversed(a) ==
    /\ Present(to_datetime(a.start)) /\ Present(to_datetime(a.end))
    /\ to_datetime(a.end) < to_datetime(a.start)

BeginOutcome_OpenFirst(a) ==
    IF ~a.exists THEN "FileNotFoundError"
    ELSE IF Reversed(a) THEN "ValueError"
    ELSE "iterating"

\* Lines 101-118: the range check, then the opening of the source.
BeginOutcome(a) ==
    IF Reversed(a) THEN "ValueError"
    ELSE IF ~a.exists THEN "FileNotFoundError"
    ELSE "iterating"

\* Lines 131-135: the early type pre-filter discards elem.
TypePreFilterDiscards(elem, types_set) ==
    /\ types_set # NONE
    /\ LET elem_type == Or(Get(elem.attrib, "type"), Get(elem.attrib, "workoutActivityType"))
       IN  /\ Truthy(elem_type)
           /\ elem_type \notin types_set.set
           /\ Str(elem.tag) \notin types_set.set

\* Lines 138-144: the early time pre-filter discards elem.
TimePreFilterDiscards(elem, start_dt, end_dt) ==
    /\ Present(start_dt) \/ Present(end_dt)
    /\ LET elem_start == to_datetime(Get(elem.attrib, "startDate"))
           elem_end == to_datetime(Get(elem.attrib, "endDate"))
       IN  \/ (Present(start_dt) /\ Present(elem_end) /\ elem_end < start_dt)
           \/ (Present(end_dt) /\ Present(elem_start) /\ elem_start > end_dt)

\* Lines 130-150: what the loop body does with a child of a root-tagged parent.
BodyOutcome(elem, a) ==
    LET types_set == TypesSet(a)
        start_dt == to_datetime(a.start)
        end_dt == to_datetime(a.end)
    IN  IF TypePreFilterDiscards(elem, types_set) THEN "type_prefilter"
        ELSE IF TimePreFilterDiscards(elem, start_dt, end_dt) THEN "time_prefilter"
        ELSE IF Raised(_parse_attributes(elem)) THEN "AttributeError"
        ELSE IF /\ is_any_of_types(from_element(elem), types_set)
                /\ intersects_time_window(from_element(elem), start_dt, end_dt)
             THEN "yielded"
             ELSE "rejected"

\* elem.clear(): the tag stays, attributes and children go.
Cleared(elem) == Elem(elem.tag, EmptyMap, <<>>)

_cleanup_KeepSiblings(siblings, elem) == Append(siblings, Cleared(elem))

\* _cleanup (lines 153-159), as the children its parent is left with: elem is
\* the parent's last child when its end tag is read; it is cleared and each
\* of the siblings before it is removed.
_cleanup(siblings, elem) == <<Cleared(elem)>>

\* A frame of the stack: an open element, its children in memory, and its
\* children as the file wrote them (full).
Frame(tag, attrib) == [tag |-> tag, attrib |-> attrib, children |-> <<>>, full |-> <<>>]
InMemory(f) == Elem(f.tag, f.attrib, f.children)
AsWritten(f) == Elem(f.tag, f.attrib, f.full)

ReaderInit ==
    /\ args \in [types : ArgTypes, start : ArgStarts, end : ArgEnds, exists : BOOLEAN]
    /\ pc = "created"
    /\ stack = <<>> /\ nread = 0 /\ emitted = <<>> /\ last = NONE /\ seen = <<>>
    /\ RecordIdle /\ SleepIdle /\ LaterIdle

\* The first next(): lines 101-118.
Begin ==
    /\ pc = "created"
    /\ pc' = BeginOutcome(args)
    /\ UNCHANGED <<args, stack, nread, emitted, last, seen, recordVars, sleepVars, laterVars>>

\* The parser reads a start tag: the root's first, then those of elements.
StartElement ==
    /\ pc = "iterating"
    /\ \/ /\ nread = 0
          /\ stack' = <<Frame(RootTag, EmptyMap)>>
       \/ /\ nread > 0 /\ nread <= MaxElems /\ stack # <<>>
          /\ \E e \in ElemChoices : stack' = Append(stack, Frame(e.tag, e.attrib))
    /\ nread' = nread + 1
    /\ UNCHANGED <<args, pc, emitted, last, seen, recordVars, sleepVars, laterVars>>

\* The parser reads an end tag: one iteration of the loop, lines 121-150,
\* with _cleanup (lines 153-159); the root's end tag ends the iteration.
EndElement ==
    /\ pc = "iterating" /\ stack # <<>>
    /\ LET n == Len(stack)
           top == stack[n]
           elem == InMemory(top)
       IN  IF n = 1
           THEN \* parent is None: continue; the events are exhausted
                /\ pc' = "done"
                /\ stack' = <<>>
                /\ UNCHANGED <<emitted, last, seen>>
           ELSE LET parent == stack[n - 1]
                    root_tag == stack[1].tag
                    isTop == (n = 2)
                    full2 == Append(parent.full, AsWritten(top))
                IN  /\ seen' = IF isTop THEN Append(seen, AsWritten(top)) ELSE seen
                    /\ IF parent.tag # root_tag
                       THEN /\ stack' = [SubSeq(stack, 1, n - 1) EXCEPT ![n - 1] =
                                   [parent EXCEPT !.children = Append(parent.children, elem),
                                                  !.full = full2]]
                            /\ UNCHANGED <<pc, emitted, last>>
                       ELSE LET outcome == BodyOutcome(elem, args) IN
                            /\ last' = [elem |-> elem, depth |-> n - 1, outcome |-> outcome]
                            /\ emitted' = IF outcome = "yielded"
                                          THEN Append(emitted, from_element(elem))
                                          ELSE emitted
                            /\ pc' = IF outcome = "AttributeError" THEN "AttributeError" ELSE pc
                            /\ stack' = [SubSeq(stack, 1, n - 1) EXCEPT ![n - 1] =
                                   [parent EXCEPT !.children =
                                        IF outcome = "AttributeError"
                                        THEN Append(parent.children, elem)
                                        ELSE _cleanup(parent.children, elem),
                                                  !.full = full2]]
    /\ UNCHANGED <<args, nread, recordVars, sleepVars, laterVars>>

ReaderNext == Begin \/ StartElement \/ EndElement

SpecReader == ReaderInit /\ [][ReaderNext]_vars

Unfiltered(a) ==
    /\ TypesSet(a) = NONE
    /\ ~Present(to_datetime(a.start)) /\ ~Present(to_datetime(a.end))

\* C1: in an unfiltered read the records emitted are, in document order, one
\* per direct child of the root that has ended, and every record emitted comes
\* from a direct child of the root.
C1_OnePerTopLevelChild ==
    Unfiltered(args) =>
        /\ Len(emitted) = Len(seen)
        /\ \A i \in 1..Len(emitted) : emitted[i].tag = Str(seen[i].tag)
        /\ (last # NONE /\ last.outcome = "yielded") => last.depth = 1

\* C2: an element the type pre-filter discards is one the full type filter
\* rejects: the resolved record_type and the tag of its record are both
\* outside the accepted set.
C2_TypePreFilterSound ==
    (last # NONE /\ last.outcome = "type_prefilter") =>
        ~is_any_of_types(from_element(last.elem), TypesSet(args))

\* C3: an element the time pre-filter discards is one whose derived window
\* does not intersect the requested window.
C3_TimePreFilterSound ==
    (last # NONE /\ last.outcome = "time_prefilter") =>
        ~intersects_time_window(from_element(last.elem),
                                to_datetime(args.start), to_datetime(args.end))

\* C4: with both bounds parsed and the end before the start, the reader
\* raises the invalid-range error before the source is opened: nothing is
\* read, nothing is emitted, and a missing source does not come first.
C4_InvalidRangeFirst ==
    Reversed(args) =>
        /\ pc \in {"created", "ValueError"}
        /\ nread = 0 /\ stack = <<>> /\ emitted = <<>>

\* C4 witness: the range is reversed, the source is missing, and the reader
\* has raised the invalid-range error.
C4_Witness == Reversed(args) /\ ~args.exists /\ pc = "ValueError"

\* C7: no record emitted is a metadata marker, and no record emitted carries
\* a marker's literal "key" or "value" attribute.
C7_NoMarkerRecord ==
    \A i \in 1..Len(emitted) :
        /\ emitted[i].tag # Str("MetadataEntry")
        /\ "key" \notin DOMAIN emitted[i].attributes

(***************************************************************************)
(* Sleep segments and sessions (sleep.py).  Instants and durations are     *)
(* whole minutes.                                                          *)
(***************************************************************************)
MaxSegs == 3
MaxTime == 3
MaxGap == 2

ValidStages == {"Awake", "Core", "Deep", "REM", "InBed", "Asleep", "Unspecified"}

StagePriority_Tied(stage) ==
    CASE stage = "Awake" -> 5
      [] stage = "REM" -> 4
      [] stage = "Deep" -> 3
      [] stage = "Core" -> 3
      [] stage = "Asleep" -> 1
      [] OTHER -> 0

\* _STAGE_PRIORITY.get(stage, 0)
StagePriority(stage) ==
    CASE stage = "Awake" -> 5
      [] stage = "REM" -> 4
      [] stage = "Deep" -> 3
      [] stage = "Core" -> 2
      [] stage = "Asleep" -> 1
      [] OTHER -> 0

Segment(s, e, stage) == [start_dt |-> s, end_dt |-> e, stage |-> stage]

\* SleepSegment.duration, SleepSession.duration
Duration(x) == x.end_dt - x.start_dt

Surviving_WithInBed(segs) == SelectSeq(segs, LAMBDA s : Duration(s) > 0)

\* [s for s in segs if s.stage != "InBed" and s.duration > timedelta(0)]
Surviving(segs) == SelectSeq(segs, LAMBDA s : s.stage # "InBed" /\ Duration(s) > 0)

\* key=lambda s: (s.start_dt, s.end_dt), compared as tuples
KeyLess(a, b) ==
    \/ a.start_dt < b.start_dt
    \/ (a.start_dt = b.start_dt /\ a.end_dt < b.end_dt)

RECURSIVE InsertSorted(_, _)
InsertSorted(sorted, s) ==
    IF sorted = <<>> THEN <<s>>
    ELSE IF KeyLess(s, sorted[Len(sorted)])
         THEN Append(InsertSorted(SubSeq(sorted, 1, Len(sorted) - 1), s), sorted[Len(sorted)])
         ELSE Append(sorted, s)

\* sorted(segs, key=...): a stable sort
RECURSIVE SortSegs(_)
SortSegs(segs) ==
    IF segs = <<>> THEN <<>>
    ELSE InsertSorted(SortSegs(SubSeq(segs, 1, Len(segs) - 1)), segs[Len(segs)])

\* sorted(set(...)) of instants
RECURSIVE SortSet(_)
SortSet(S) ==
    IF S = {} THEN <<>>
    ELSE LET m == CHOOSE x \in S : \A y \in S : x <= y
         IN  <<m>> \o SortSet(S \ {m})

Boundaries_StartsOnly(segs) ==
    SortSet({segs[i].start_dt : i \in 1..Len(segs)})

Boundaries(segs) ==
    SortSet({segs[i].start_dt : i \in 1..Len(segs)} \cup {segs[i].end_dt : i \in 1..Len(segs)})

MaxByPriority_First(covering, i, best) == best

\* max(covering, key=priority): the first element of the highest priority
RECURSIVE MaxByPriority(_, _, _)
MaxByPriority(covering, i, best) ==
    IF i > Len(covering) THEN best
    ELSE MaxByPriority(covering, i + 1,
            IF StagePriority(covering[i].stage) > StagePriority(best.stage)
            THEN covering[i] ELSE best)

RECURSIVE Resolve_WinnerBounds(_, _, _)
Resolve_WinnerBounds(segs, boundaries, i) ==
    IF i >= Len(boundaries) THEN <<>>
    ELSE LET a == boundaries[i]
             b == boundaries[i + 1]
             covering == SelectSeq(segs, LAMBDA s : s.start_dt < b /\ s.end_dt > a)
         IN  IF covering = <<>> THEN Resolve_WinnerBounds(segs, boundaries, i + 1)
             ELSE LET winner == MaxByPriority(covering, 2, covering[1])
                  IN  <<Segment(winner.start_dt, winner.end_dt, winner.stage)>>
                      \o Resolve_WinnerBounds(segs, boundaries, i + 1)

\* Lines 106-119: one segment per elementary interval some segment covers.
RECURSIVE Resolve(_, _, _)
Resolve(segs, boundaries, i) ==
    IF i >= Len(boundaries) THEN <<>>
    ELSE LET a == boundaries[i]
             b == boundaries[i + 1]
             covering == SelectSeq(segs, LAMBDA s : s.start_dt < b /\ s.end_dt > a)
         IN  IF covering = <<>> THEN Resolve(segs, boundaries, i + 1)
             ELSE <<Segment(a, b, MaxByPriority(covering, 2, covering[1]).stage)>>
                  \o Resolve(segs, boundaries, i + 1)

RECURSIVE MergeAdjacent_AnyStage(_, _, _)
MergeAdjacent_AnyStage(merged, result, i) ==
    IF i > Len(result) THEN merged
    ELSE LET seg == result[i]
             prev == merged[Len(merged)]
         IN  IF seg.start_dt = prev.end_dt
             THEN MergeAdjacent_AnyStage(
                    [merged EXCEPT ![Len(merged)] = Segment(prev.start_dt, seg.end_dt, seg.stage)],
                    result, i + 1)
             ELSE MergeAdjacent_AnyStage(Append(merged, seg), result, i + 1)

\* Lines 125-135: merge adjacent segments of one stage.
RECURSIVE MergeAdjacent(_, _, _)
MergeAdjacent(merged, result, i) ==
    IF i > Len(result) THEN merged
    ELSE LET seg == result[i]
             prev == merged[Len(merged)]
         IN  IF seg.stage = prev.stage /\ seg.start_dt = prev.end_dt
             THEN MergeAdjacent(
                    [merged EXCEPT ![Len(merged)] = Segment(prev.start_dt, seg.end_dt, seg.stage)],
                    result, i + 1)
             ELSE MergeAdjacent(Append(merged, seg), result, i + 1)

_normalize_SortOnly(segs) == SortSegs(Surviving(segs))

\* SleepSession._normalize
_normalize(segs) ==
    LET kept == Surviving(segs) IN
    IF kept = <<>> THEN <<>>
    ELSE LET sorted == SortSegs(kept)
             result == Resolve(sorted, Boundaries(sorted), 1)
         IN  IF result = <<>> THEN <<>>
             ELSE MergeAdjacent(<<result[1]>>, result, 2)

IsError(x) == "error" \in DOMAIN x

\* SleepSession.from_segments
from_segments(segs) ==
    LET norm == _normalize(segs) IN
    IF norm = <<>> THEN [error |-> "ValueError"]
    ELSE [start_dt |-> norm[1].start_dt, end_dt |-> norm[Len(norm)].end_dt, segments |-> norm]

RECURSIVE SumDurations(_, _)
SumDurations(segs, i) ==
    IF i > Len(segs) THEN 0 ELSE Duration(segs[i]) + SumDurations(segs, i + 1)

\* SleepSession.asleep_duration, awake_duration
asleep_duration(sess) == SumDurations(SelectSeq(sess.segments, LAMBDA s : s.stage # "Awake"), 1)
awake_duration(sess) == SumDurations(SelectSeq(sess.segments, LAMBDA s : s.stage = "Awake"), 1)

RECURSIVE Grouping_AtLeast(_, _, _, _, _)
Grouping_AtLeast(segs, gap, i, groups, current) ==
    IF i > Len(segs) THEN (IF current # <<>> THEN Append(groups, current) ELSE groups)
    ELSE LET seg == segs[i] IN
         IF current = <<>> THEN Grouping_AtLeast(segs, gap, i + 1, groups, <<seg>>)
         ELSE IF seg.start_dt - current[Len(current)].end_dt >= gap
              THEN Grouping_AtLeast(segs, gap, i + 1, Append(groups, current), <<seg>>)
              ELSE Grouping_AtLeast(segs, gap, i + 1, groups, Append(current, seg))

\* The loop of build_sleep_sessions (lines 183-191) from segment i on: the
\* groups closed so far and the group being filled.
RECURSIVE Grouping(_, _, _, _, _)
Grouping(segs, gap, i, groups, current) ==
    IF i > Len(segs) THEN (IF current # <<>> THEN Append(groups, current) ELSE groups)
    ELSE LET seg == segs[i] IN
         IF current = <<>> THEN Grouping(segs, gap, i + 1, groups, <<seg>>)
         ELSE IF seg.start_dt - current[Len(current)].end_dt > gap
              THEN Grouping(segs, gap, i + 1, Append(groups, current), <<seg>>)
              ELSE Grouping(segs, gap, i + 1, groups, Append(current, seg))

Groups_Unfiltered(segments, gap) ==
    IF segments = <<>> THEN <<>> ELSE Grouping(segments, gap, 1, <<>>, <<>>)

\* The groups build_sleep_sessions forms, in order.
Groups(segments, gap) ==
    LET segs == Surviving(segments) IN
    IF segs = <<>> THEN <<>> ELSE Grouping(segs, gap, 1, <<>>, <<>>)

\* sessions.append(SleepSession.from_segments(current)) for the groups from
\* group i on: the sessions, or the error from_segments raises.
RECURSIVE SessionsFrom(_, _, _)
SessionsFrom(groups, i, out) ==
    IF i > Len(groups) THEN [list |-> out]
    ELSE LET s == from_segments(groups[i]) IN
         IF IsError(s) THEN s ELSE SessionsFrom(groups, i + 1, Append(out, s))

\* build_sleep_sessions: a session per group, or the error from_segments raises.
build_sleep_sessions(segments, gap) == SessionsFrom(Groups(segments, gap), 1, <<>>)

(***************************************************************************)
(* SpecSleep                                                               *)
(***************************************************************************)
\* The segments handed in: every positive-duration interval of the horizon in
\* the stages Awake and Core, two InBed segments and a zero-duration one.
\* Each satisfies SleepSegment's own check, end not before start.
SegChoices ==
    { x \in [start_dt : 0..MaxTime, end_dt : 0..MaxTime, stage : {"Awake", "Core"}] :
        x.end_dt > x.start_dt }
    \cup { Segment(0, MaxTime, "InBed"), Segment(1, 2, "InBed"), Segment(1, 1, "Core") }

SleepInit ==
    /\ input \in SeqsUpTo(SegChoices, MaxSegs)
    /\ session = NONE /\ sessions = NONE
    /\ RecordIdle /\ ReaderIdle /\ LaterIdle

\* SleepSession.from_segments(input)
FromSegments ==
    /\ session = NONE /\ sessions = NONE
    /\ session' = from_segments(input)
    /\ UNCHANGED <<input, sessions, recordVars, readerVars, laterVars>>

\* build_sleep_sessions(input, gap)
BuildSessions ==
    /\ session = NONE /\ sessions = NONE
    /\ \E gap \in 0..MaxGap :
         \E groups \in {Groups(input, gap)} :
            sessions' = [gap |-> gap,
                         groups |-> groups,
                         result |-> SessionsFrom(groups, 1, <<>>)]
    /\ UNCHANGED <<input, session, recordVars, readerVars, laterVars>>

SleepNext == FromSegments \/ BuildSessions

SpecSleep == SleepInit /\ [][SleepNext]_vars

\* The sessions a state holds, each with the segments it was built from.
Produced ==
    (IF session # NONE /\ ~IsError(session)
     THEN {[sess |-> session, from |-> input]} ELSE {})
    \cup
    (IF sessions # NONE /\ ~IsError(sessions.result)
     THEN {[sess |-> sessions.result.list[i], from |-> sessions.groups[i]] :
              i \in 1..Len(sessions.result.list)}
     ELSE {})

\* Some surviving segment of segs covers [t, t+1).
Covered(segs, t) ==
    \E i \in 1..Len(segs) :
        /\ segs[i].stage # "InBed"
        /\ segs[i].start_dt <= t /\ t < segs[i].end_dt

\* C8 as stated: consecutive segments of a session leave no gap.
C8_NoGaps ==
    \A p \in Produced :
        \A i \in 1..(Len(p.sess.segments) - 1) :
            p.sess.segments[i + 1].start_dt = p.sess.segments[i].end_dt

\* C8 amended: consecutive segments of a session never overlap, and the time
\* between them is time that no segment the session was built from covers.
C8_GapsOnlyWhereUncovered ==
    \A p \in Produced :
        \A i \in 1..(Len(p.sess.segments) - 1) :
            /\ p.sess.segments[i + 1].start_dt >= p.sess.segments[i].end_dt
            /\ \A t \in p.sess.segments[i].end_dt .. (p.sess.segments[i + 1].start_dt - 1) :
                 ~Covered(p.from, t)

\* C8 witness: a session built from three segments, two of them overlapping,
\* holds a gap between consecutive segments.
C8_Witness ==
    \E p \in Produced :
        /\ Len(p.from) = 3
        /\ \E i \in 1..(Len(p.sess.segments) - 1) :
             p.sess.segments[i + 1].start_dt > p.sess.segments[i].end_dt
        /\ \E i, j \in 1..Len(p.from) :
             /\ i # j
             /\ p.from[i].stage # "InBed" /\ p.from[j].stage # "InBed"
             /\ p.from[i].start_dt <= p.from[j].start_dt
             /\ p.from[j].start_dt < p.from[i].end_dt

\* C9: for every session, asleep_duration + awake_duration <= duration, the
\* start is the first segment's start and the end is the last segment's end.
C9_SessionInvariant ==
    \A p \in Produced :
        /\ asleep_duration(p.sess) + awake_duration(p.sess) <= Duration(p.sess)
        /\ p.sess.start_dt = p.sess.segments[1].start_dt
        /\ p.sess.end_dt = p.sess.segments[Len(p.sess.segments)].end_dt

\* C9 witness: build_sleep_sessions returned a session with a gap inside, so
\* that asleep plus awake time is strictly less than its duration.
C9_Witness ==
    /\ sessions # NONE /\ ~IsError(sessions.result)
    /\ \E i \in 1..Len(sessions.result.list) :
         LET sess == sessions.result.list[i] IN
         /\ awake_duration(sess) > 0 /\ asleep_duration(sess) > 0
         /\ asleep_duration(sess) + awake_duration(sess) < Duration(sess)

AscendingStarts(segs) ==
    \A i \in 1..(Len(segs) - 1) : segs[i].start_dt <= segs[i + 1].start_dt

\* C10: for input in ascending start order, consecutive sessions returned by
\* build_sleep_sessions are more than the gap apart.
C10_SessionsGapApart ==
    (sessions # NONE /\ ~IsError(sessions.result) /\ AscendingStarts(input)) =>
        \A i \in 1..(Len(sessions.result.list) - 1) :
            sessions.result.list[i + 1].start_dt - sessions.result.list[i].end_dt
                > sessions.gap

\* The orderings of a sequence.
Reorderings(seq) ==
    LET n == Len(seq) IN
    { [i \in 1..n |-> seq[f[i]]] :
        f \in { g \in [1..n -> 1..n] : \A i, j \in 1..n : g[i] = g[j] => i = j } }

\* C11: build_sleep_sessions returns the same sessions for every ordering of
\* its input, and returns them in ascending order of start.
C11_OrderIndependent ==
    sessions # NONE =>
        /\ \A p \in Reorderings(input) :
             build_sleep_sessions(p, sessions.gap) = sessions.result
        /\ ~IsError(sessions.result) =>
             \A i \in 1..(Len(sessions.result.list) - 1) :
                 sessions.result.list[i].start_dt < sessions.result.list[i + 1].start_dt

(***************************************************************************)
(* SpecSegment: SleepSegment(start_dt, end_dt, stage).                     *)
(***************************************************************************)
\* isinstance(x, datetime): an argument that is no datetime is NoInstant.
IsDatetime(x) == Present(x)

\* SleepSegment.__post_init__: the segment, or the error raised.
SleepSegment(start_dt, end_dt, stage) ==
    IF ~IsDatetime(start_dt) \/ ~IsDatetime(end_dt) THEN [error |-> "TypeError"]
    ELSE IF end_dt < start_dt THEN [error |-> "ValueError"]
    ELSE IF stage \notin ValidStages THEN [error |-> "ValueError"]
    ELSE Segment(start_dt, end_dt, stage)

CtorInstants == {NoInstant} \cup (0..MaxTime)
CtorStages == ValidStages \cup {"Unknown", ""}

SegmentInit ==
    /\ ctor \in [start_dt : CtorInstants, end_dt : CtorInstants, stage : CtorStages]
    /\ segment = NONE
    /\ segmentOthersIdle

\* SleepSegment(start_dt=..., end_dt=..., stage=...)
NewSegment ==
    /\ segment = NONE
    /\ segment' = SleepSegment(ctor.start_dt, ctor.end_dt, ctor.stage)
    /\ UNCHANGED <<ctor, segmentFrame>>

SegmentNext == NewSegment

SpecSegment == SegmentInit /\ [][SegmentNext]_vars

\* C12: a segment that was constructed has its start strictly before its end
\* and a stage of the enumerated set, holding the arguments as given, and
\* construction fails when the end is before the start, when the end equals
\* the start, and when the stage is outside the set.
C12_SegmentValid ==
    segment # NONE =>
        /\ ~IsError(segment) =>
             /\ segment.start_dt < segment.end_dt
             /\ segment.stage \in ValidStages
             /\ segment = Segment(ctor.start_dt, ctor.end_dt, ctor.stage)
        /\ (ctor.end_dt <= ctor.start_dt \/ ctor.stage \notin ValidStages) =>
             IsError(segment)

(***************************************************************************)
(* The sleep pipeline and the HTTP handlers (sleep.py, api/main.py).  A    *)
(* document is the sequence of the root's direct children, none of them    *)
(* with a root-tagged descendant; instants and durations are whole hours.  *)
(***************************************************************************)
MaxDoc == 2

SLEEP_TYPE == Str("HKCategoryTypeIdentifierSleepAnalysis")

\* SLEEP_STAGES.get(value, "Unspecified")
SLEEP_STAGES(value) ==
    CASE value = Str("HKCategoryValueSleepAnalysisAwake") -> "Awake"
      [] value = Str("HKCategoryValueSleepAnalysisAsleepCore") -> "Core"
      [] value = Str("HKCategoryValueSleepAnalysisAsleepDeep") -> "Deep"
      [] value = Str("HKCategoryValueSleepAnalysisAsleepREM") -> "REM"
      [] value = Str("HKCategoryValueSleepAnalysisInBed") -> "InBed"
      [] value = Str("HKCategoryValueSleepAnalysisAsleep") -> "Asleep"
      [] value = Str("HKCategoryValueSleepAnalysisAsleepUnspecified") -> "Unspecified"
      [] OTHER -> "Unspecified"

VITAL_TYPES ==
    { Str("HKQuantityTypeIdentifierHeartRate"),
      Str("HKQuantityTypeIdentifierRestingHeartRate"),
      Str("HKQuantityTypeIdentifierWalkingHeartRateAverage"),
      Str("HKQuantityTypeIdentifierBloodPressureSystolic"),
      Str("HKQuantityTypeIdentifierBloodPressureDiastolic"),
      Str("HKQuantityTypeIdentifierBloodGlucose"),
      Str("HKQuantityTypeIdentifierRespiratoryRate"),
      Str("HKQuantityTypeIdentifierAppleSleepingWristTemperature") }

\* iter_health_records consumed to its end, from child i of the root on: the
\* records yielded, or the error that ended the iteration.
RECURSIVE RecordsFrom(_, _, _, _)
RECURSIVE RecordsStep(_, _, _, _, _)
RecordsFrom(doc, a, i, out) ==
    IF i > Len(doc) THEN [list |-> out]
    ELSE RecordsStep(doc, a, i, out, BodyOutcome(doc[i], a))

RecordsStep(doc, a, i, out, outcome) ==
    IF outcome = "AttributeError" THEN [error |-> "AttributeError"]
    ELSE IF outcome = "yielded"
         THEN RecordsFrom(doc, a, i + 1, Append(out, from_element(doc[i])))
         ELSE RecordsFrom(doc, a, i + 1, out)

iter_health_records(doc, a) ==
    IF BeginOutcome(a) # "iterating" THEN [error |-> BeginOutcome(a)]
    ELSE RecordsFrom(doc, a, 1, <<>>)

\* The body of the loop of iter_sleep_segments for a record yielded: the
\* segment constructed, the error raised, or NONE for a record passed over.
SegmentOf(rec) ==
    IF ~(Present(rec.start_dt) /\ Present(rec.end_dt) /\ rec.end_dt > rec.start_dt)
    THEN NONE
    ELSE IF IsList(Get(rec.attributes, "value"))
         THEN [error |-> "TypeError"]   \* a list is no dictionary key
         ELSE SleepSegment(rec.start_dt, rec.end_dt,
                           SLEEP_STAGES(Get(rec.attributes, "value")))

\* iter_sleep_segments consumed to its end, from child i of the root on.
RECURSIVE SegmentsFrom(_, _, _, _)
RECURSIVE SegmentsStep(_, _, _, _, _, _)
SegmentsFrom(doc, a, i, out) ==
    IF i > Len(doc) THEN [list |-> out]
    ELSE SegmentsStep(doc, a, i, out, BodyOutcome(doc[i], a),
                      SegmentOf(from_element(doc[i])))

SegmentsStep(doc, a, i, out, outcome, seg) ==
    IF outcome = "AttributeError" THEN [error |-> "AttributeError"]
    ELSE IF outcome # "yielded" THEN SegmentsFrom(doc, a, i + 1, out)
    ELSE IF seg = NONE THEN SegmentsFrom(doc, a, i + 1, out)
    ELSE IF IsError(seg) THEN seg
    ELSE SegmentsFrom(doc, a, i + 1, Append(out, seg))

\* iter_health_records(file_path, types=[SLEEP_TYPE], start=start, end=end)
SleepArgs(exists, start, end) ==
    [types |-> [set |-> {SLEEP_TYPE}], start |-> start, end |-> end, exists |-> exists]

iter_sleep_segments(doc, a) ==
    IF BeginOutcome(a) # "iterating" THEN [error |-> BeginOutcome(a)]
    ELSE SegmentsFrom(doc, a, 1, <<>>)

\* datetime.isoformat(timespec="seconds"): the text of an instant.
isoformat(t) == [iso |-> t]

\* timedelta.total_seconds() of a number of hours.
total_seconds(d) == d * 3600

\* SleepSession.to_dict
session_to_dict(sess) ==
    [startDate |-> isoformat(sess.start_dt),
     endDate |-> isoformat(sess.end_dt),
     duration |-> total_seconds(Duration(sess)),
     asleepDuration |-> total_seconds(asleep_duration(sess)),
     awakeDuration |-> total_seconds(awake_duration(sess)),
     awakenings |-> Len(SelectSeq(sess.segments,
                        LAMBDA s : s.stage = "Awake" /\ Duration(s) * 60 >= 2)),
     segments |-> [i \in 1..Len(sess.segments) |->
                     [stage |-> sess.segments[i].stage,
                      startDate |-> isoformat(sess.segments[i].start_dt),
                      endDate |-> isoformat(sess.segments[i].end_dt),
                      duration |-> total_seconds(Duration(sess.segments[i]))]]]

_safe_parse_Swapped(result) ==
    IF ~IsError(result) THEN [status |-> 200, body |-> result.list]
    ELSE IF result.error = "ValueError" THEN [status |-> 404]
    ELSE IF result.error = "FileNotFoundError" THEN [status |-> 422]
    ELSE [status |-> 500]

\* _safe_parse: what func returned, or the HTTPException its error becomes.
_safe_parse(result) ==
    IF ~IsError(result) THEN [status |-> 200, body |-> result.list]
    ELSE IF result.error = "ValueError" THEN [status |-> 422]
    ELSE IF result.error = "FileNotFoundError" THEN [status |-> 404]
    ELSE [status |-> 500]

\* [rec.to_dict() for rec in ...]
RecordDictsOf(recs) ==
    IF IsError(recs) THEN recs
    ELSE [list |-> [i \in 1..Len(recs.list) |-> to_dict(recs.list[i])]]

\* _fetch of list_records and of list_vitals
fetch_records(req, types) ==
    RecordDictsOf(iter_health_records(req.doc,
        [types |-> types, start |-> req.start, end |-> req.end, exists |-> req.exists]))

\* [s.to_dict() for s in sessions]
SessionDictsOf(built) ==
    IF IsError(built) THEN built
    ELSE [list |-> [i \in 1..Len(built.list) |-> session_to_dict(built.list[i])]]

\* build_sleep_sessions(segs, gap=timedelta(hours=gap_hours))
SessionsOf(segs, gap) ==
    IF IsError(segs) THEN segs
    ELSE SessionDictsOf(build_sleep_sessions(segs.list, gap))

\* _fetch of list_sessions
fetch_sessions(req) ==
    SessionsOf(iter_sleep_segments(req.doc, SleepArgs(req.exists, req.start, req.end)),
               req.gap_hours)

(***************************************************************************)
(* SpecApi: one request to /records, /sessions or /vitals.                 *)
(***************************************************************************)
SleepRecord(value, startDate, creationDate, endDate, children) ==
    Elem("Record",
         Mapping([type |-> SLEEP_TYPE, value |-> value, startDate |-> startDate,
                  creationDate |-> creationDate, endDate |-> endDate]),
         children)

\* The children of the root a document is made of.
ApiElems ==
    { SleepRecord(Str("HKCategoryValueSleepAnalysisAsleepCore"), T0, NONE, T2, <<>>),
      SleepRecord(Str("HKCategoryValueSleepAnalysisAwake"), T1, NONE, T3, <<>>),
      SleepRecord(NONE, T3, NONE, T4, <<>>),
      SleepRecord(Str("HKCategoryValueSleepAnalysisInBed"), T0, NONE, T4, <<>>),
      SleepRecord(Str("HKCategoryValueSleepAnalysisAsleepCore"), NONE, T2, T4, <<>>),
      SleepRecord(Str("HKCategoryValueSleepAnalysisAsleepREM"), T3, NONE, T1, <<>>),
      SleepRecord(List(<<>>), T0, NONE, T1, <<Elem("value", EmptyMap, <<>>)>>),
      Elem("Record",
           Mapping([type |-> Str("HKQuantityTypeIdentifierHeartRate"), startDate |-> T1]),
           <<>>) }

ApiStarts == {NONE, T1, T3}
ApiEnds == {NONE, T0, T2}
ApiTypes == {NONE, [set |-> {SLEEP_TYPE}]}

ApiInit ==
    /\ request \in [endpoint : {"records", "sessions", "vitals"},
                    exists : BOOLEAN,
                    doc : SeqsUpTo(ApiElems, MaxDoc),
                    types : ApiTypes,
                    start : ApiStarts,
                    end : ApiEnds,
                    gap_hours : 1..MaxGap]
    /\ response = NONE
    /\ apiOthersIdle

\* GET /records
list_records ==
    /\ request.endpoint = "records" /\ response = NONE
    /\ response' = _safe_parse(fetch_records(request, request.types))
    /\ UNCHANGED <<request, apiFrame>>

\* GET /sessions
list_sessions ==
    /\ request.endpoint = "sessions" /\ response = NONE
    /\ response' = _safe_parse(fetch_sessions(request))
    /\ UNCHANGED <<request, apiFrame>>

\* GET /vitals
list_vitals ==
    /\ request.endpoint = "vitals" /\ response = NONE
    /\ response' = _safe_parse(fetch_records(request,
                       IF TypesSet(request) = NONE THEN [set |-> VITAL_TYPES]
                       ELSE request.types))
    /\ UNCHANGED <<request, apiFrame>>

ApiNext == list_records \/ list_sessions \/ list_vitals

SpecApi == ApiInit /\ [][ApiNext]_vars

\* The window bounds of the request, as the reader parses them.
WindowStart == to_datetime(request.start)
WindowEnd == to_datetime(request.end)

\* The request was to /sessions and was answered with sessions.
SessionsServed ==
    /\ response # NONE /\ request.endpoint = "sessions" /\ response.status = 200

\* C13 as stated: with both bounds given, every session returned starts at or
\* after the window start and ends at or before the window end.
C13_SessionsInsideWindow ==
    (SessionsServed /\ Present(WindowStart) /\ Present(WindowEnd)) =>
        \A i \in 1..Len(response.body) :
            /\ response.body[i].startDate.iso >= WindowStart
            /\ response.body[i].endDate.iso <= WindowEnd

\* C13 amended: every session returned intersects the window: it ends at or
\* after the window start when that bound is given, and starts at or before
\* the window end when that bound is given.
C13_SessionsIntersectWindow ==
    SessionsServed =>
        \A i \in 1..Len(response.body) :
            /\ Present(WindowStart) => response.body[i].endDate.iso >= WindowStart
            /\ Present(WindowEnd) => response.body[i].startDate.iso <= WindowEnd

\* C13 witness: with both bounds given, a session was returned that starts
\* before the window start and ends inside the window.
C13_Witness ==
    /\ SessionsServed /\ Present(WindowStart) /\ Present(WindowEnd)
    /\ \E i \in 1..Len(response.body) :
         /\ response.body[i].startDate.iso < WindowStart
         /\ response.body[i].endDate.iso >= WindowStart
         /\ response.body[i].endDate.iso <= WindowEnd

(***************************************************************************)
(* SpecDict: the mapping a record holds and the mappings to_dict returns.  *)
(* Dictionaries and lists are objects of a heap, named by their address;   *)
(* a value is a string or a reference to an object.                        *)
(***************************************************************************)
MaxCopies == 2
MaxWrites == 2

Ref(n) == [ref |-> n]
IsRef(v) == DOMAIN v = {"ref"}
DictObj(items) == [kind |-> "dict", items |-> items]
ListObj(items) == [kind |-> "list", items |-> items]

\* The value an object graph has: what == compares.
RECURSIVE Value(_, _)
Value(h, v) ==
    IF ~IsRef(v) THEN v
    ELSE IF h[v.ref].kind = "dict"
         THEN [dict |-> [k \in DOMAIN h[v.ref].items |-> Value(h, h[v.ref].items[k])]]
         ELSE [list |-> [i \in 1..Len(h[v.ref].items) |-> Value(h, h[v.ref].items[i])]]

\* dict(d): a new dictionary holding the entries of d, the values themselves.
dict(items) == DictObj(items)

\* The attrs handed to from_dict, at address 1: the mapping of the test, and
\* one with a nested list.
CallerHeaps ==
    { <<DictObj(Mapping([type |-> Str("HKQuantityTypeIdentifierStepCount"),
                         value |-> Str("100")]))>>,
      <<DictObj(Mapping([type |-> Str("Workout"), WorkoutEvent |-> Ref(2)])),
        ListObj(<<Ref(3)>>),
        DictObj(Mapping([_tag |-> Str("WorkoutEvent"), type |-> Str("Paused")]))>> }

DictInit ==
    /\ heap \in CallerHeaps
    /\ held = NONE /\ copies = <<>> /\ writes = 0
    /\ dictOthersIdle

\* record = HealthRecord.from_dict(attrs): attrs = dict(attrs), then the
\* injected keys; held keeps the address of record.attributes and its
\* value at construction.
FromDict ==
    /\ held = NONE
    /\ LET attrs == dict(from_dict(heap[1].items).attributes)
           h2 == Append(heap, attrs)
       IN  /\ heap' = h2
           /\ held' = [attributes |-> Len(h2), value |-> Value(h2, Ref(Len(h2)))]
    /\ UNCHANGED <<copies, writes, dictFrame>>

\* result = record.to_dict()
ToDict ==
    /\ held # NONE /\ Len(copies) < MaxCopies
    /\ LET h2 == Append(heap, dict(to_dict([attributes |-> heap[held.attributes].items])))
       IN  /\ heap' = h2
           /\ copies' = Append(copies, [addr |-> Len(h2), value |-> Value(h2, Ref(Len(h2)))])
    /\ UNCHANGED <<held, writes, dictFrame>>

\* result[key] = "999" on a mapping to_dict returned
SetItem ==
    /\ writes < MaxWrites
    /\ \E c \in 1..Len(copies) :
         \E k \in DOMAIN heap[copies[c].addr].items \cup {"note"} :
            heap' = [heap EXCEPT ![copies[c].addr].items = Put(@, k, Str("999"))]
    /\ writes' = writes + 1
    /\ UNCHANGED <<held, copies, dictFrame>>

\* result[key][0][name] = "999": an entry of a nested list is changed
SetNestedItem ==
    /\ writes < MaxWrites
    /\ \E c \in 1..Len(copies) :
         \E k \in DOMAIN heap[copies[c].addr].items :
            LET v == heap[copies[c].addr].items[k] IN
            /\ IsRef(v)
            /\ heap[v.ref].kind = "list" /\ Len(heap[v.ref].items) > 0
            /\ IsRef(heap[v.ref].items[1])
            /\ \E name \in DOMAIN heap[heap[v.ref].items[1].ref].items :
                 heap' = [heap EXCEPT ![heap[v.ref].items[1].ref].items =
                                          Put(@, name, Str("999"))]
    /\ writes' = writes + 1
    /\ UNCHANGED <<held, copies, dictFrame>>

\* result[key].append("999"): a nested list is changed
AppendNested ==
    /\ writes < MaxWrites
    /\ \E c \in 1..Len(copies) :
         \E k \in DOMAIN heap[copies[c].addr].items :
            LET v == heap[copies[c].addr].items[k] IN
            /\ IsRef(v)
            /\ heap[v.ref].kind = "list"
            /\ heap' = [heap EXCEPT ![v.ref].items = Append(@, Str("999"))]
    /\ writes' = writes + 1
    /\ UNCHANGED <<held, copies, dictFrame>>

DictNext == FromDict \/ ToDict \/ SetItem \/ SetNestedItem \/ AppendNested

SpecDict == DictInit /\ [][DictNext]_vars

\* C14: whatever is done to the mappings to_dict returned, the record's
\* attributes keep the value they had at construction, every to_dict call
\* returned that value, and every call returned a mapping of its own,
\* distinct from the record's and from the others.
C14_RecordNeverMutated ==
    held # NONE =>
        /\ Value(heap, Ref(held.attributes)) = held.value
        /\ \A c \in 1..Len(copies) :
             /\ copies[c].value = held.value
             /\ copies[c].addr # held.attributes
             /\ \A d \in 1..Len(copies) : copies[c].addr = copies[d].addr => c = d

\* The first present instant of a sequence, or NoInstant.
RECURSIVE FirstPresent(_)
FirstPresent(ts) ==
    IF ts = <<>> THEN NoInstant
    ELSE IF Present(Head(ts)) THEN Head(ts)
    ELSE FirstPresent(Tail(ts))

\* C15: with s, c, e the parsed startDate, creationDate and endDate of a
\* record, its start is the first present of (s, c, e); its end is the first
\* present of (e, s, c), or the start when that is before the start; start
\* and end are absent together, exactly when none of the three parses; and
\* when both are present the end is not before the start.
C15_DerivedWindow ==
    IsRecord(record) =>
        LET s == to_datetime(Get(record.attributes, "startDate"))
            c == to_datetime(Get(record.attributes, "creationDate"))
            e == to_datetime(Get(record.attributes, "endDate"))
            first_end == FirstPresent(<<e, s, c>>)
        IN  /\ record.start_dt = FirstPresent(<<s, c, e>>)
            /\ record.end_dt = IF first_end < record.start_dt THEN record.start_dt
                               ELSE first_end
            /\ ~Present(record.start_dt) <=> ~Present(record.end_dt)
            /\ ~Present(record.start_dt) <=> (~Present(s) /\ ~Present(c) /\ ~Present(e))
            /\ Present(record.start_dt) => record.end_dt >= record.start_dt

\* C15 witness: a record whose endDate parses to an instant before its
\* startDate was built, and its end is its start.
C15_Witness ==
    /\ IsRecord(record)
    /\ Present(to_datetime(Get(record.attributes, "endDate")))
    /\ to_datetime(Get(record.attributes, "endDate"))
         < to_datetime(Get(record.attributes, "startDate"))
    /\ record.end_dt = record.start_dt
    /\ record.start_dt = to_datetime(Get(record.attributes, "startDate"))

\* What the core does with the request: the result of the handler's _fetch.
CoreResult ==
    IF request.endpoint = "sessions" THEN fetch_sessions(request)
    ELSE IF request.endpoint = "records" THEN fetch_records(request, request.types)
    ELSE fetch_records(request, IF TypesSet(request) = NONE THEN [set |-> VITAL_TYPES]
                                ELSE request.types)

\* The ways SleepSegment construction fails validation.
SegmentValidationFailures ==
    { SleepSegment(s, e, stage) : s \in 0..MaxTime, e \in 0..MaxTime, stage \in CtorStages }
        \ [start_dt : 0..MaxTime, end_dt : 0..MaxTime, stage : CtorStages]

\* C16: a reversed range is answered with 422, also when the file is
\* missing; otherwise a missing file is answered with 404; otherwise any
\* other failure of the core is answered with 500 and success with 200; and
\* a validation failure of segment construction is translated to 422.
C16_ErrorTranslation ==
    response # NONE =>
        /\ Reversed(request) => response.status = 422
        /\ (~Reversed(request) /\ ~request.exists) => response.status = 404
        /\ (~Reversed(request) /\ request.exists) =>
             response.status = IF IsError(CoreResult) THEN 500 ELSE 200
        /\ \A failure \in SegmentValidationFailures : _safe_parse(failure).status = 422

\* C16 witness: a request with a reversed range for a missing file was
\* answered with 422.
C16_Witness ==
    /\ response # NONE
    /\ Reversed(request) /\ ~request.exists
    /\ response.status = 422

(***************************************************************************)
(* SpecNormalize: SleepSession._normalize over segments of every stage,    *)
(* and over its own output.                                                *)
(***************************************************************************)
NormSegs == 2

\* The segments handed in: every positive-duration interval of the horizon in
\* every stage that takes part in overlap resolution, an InBed segment and a
\* zero-duration one.
NormChoices ==
    { x \in [start_dt : 0..MaxTime, end_dt : 0..MaxTime,
             stage : ValidStages \ {"InBed"}] : x.end_dt > x.start_dt }
    \cup { Segment(0, MaxTime, "InBed"), Segment(1, 1, "Awake") }

NormInit ==
    /\ raw \in SeqsUpTo(NormChoices, NormSegs)
    /\ normalized = NONE /\ renormalized = NONE
    /\ normOthersIdle

\* norm = SleepSession._normalize(segs)
Normalize ==
    /\ normalized = NONE
    /\ normalized' = [list |-> _normalize(raw)]
    /\ UNCHANGED <<raw, renormalized, normFrame>>

\* SleepSession._normalize(norm)
Renormalize ==
    /\ normalized # NONE /\ renormalized = NONE
    /\ renormalized' = [list |-> _normalize(normalized.list)]
    /\ UNCHANGED <<raw, normalized, normFrame>>

NormNext == Normalize \/ Renormalize

SpecNormalize == NormInit /\ [][NormNext]_vars

\* The stages in the order of the overlap rule, highest first.
PriorityOrder == <<"Awake", "REM", "Deep", "Core", "Asleep", "Unspecified">>

\* Stage a comes at or before stage b in PriorityOrder.
AtLeast(a, b) ==
    \E i, j \in 1..Len(PriorityOrder) :
        PriorityOrder[i] = a /\ PriorityOrder[j] = b /\ i <= j

\* The surviving segments of xs that cover [t, t+1).
Covering(xs, t) ==
    { i \in 1..Len(xs) :
        /\ xs[i].stage # "InBed" /\ xs[i].end_dt > xs[i].start_dt
        /\ xs[i].start_dt <= t /\ t < xs[i].end_dt }

\* C17: every instant that a surviving input segment covers lies in an
\* output segment, and that segment carries the stage that is highest in
\* Awake > REM > Deep > Core > Asleep > Unspecified among the surviving input
\* segments covering the instant; Core over [0,3) with Awake over [1,2)
\* gives exactly Core [0,1), Awake [1,2), Core [2,3).
C17_HighestPriorityWins ==
    normalized # NONE =>
        /\ \A t \in 0..MaxTime :
             Covering(raw, t) # {} =>
                \E j \in 1..Len(normalized.list) :
                    /\ normalized.list[j].start_dt <= t /\ t < normalized.list[j].end_dt
                    /\ \E i \in Covering(raw, t) : raw[i].stage = normalized.list[j].stage
                    /\ \A i \in Covering(raw, t) :
                         AtLeast(normalized.list[j].stage, raw[i].stage)
        /\ raw = <<Segment(0, 3, "Core"), Segment(1, 2, "Awake")>> =>
             normalized.list =
                <<Segment(0, 1, "Core"), Segment(1, 2, "Awake"), Segment(2, 3, "Core")>>

\* C17 witness: Core over [0,3) and Awake over [1,2) were normalised into
\* three segments.
C17_Witness ==
    /\ normalized # NONE
    /\ raw = <<Segment(0, 3, "Core"), Segment(1, 2, "Awake")>>
    /\ Len(normalized.list) = 3

\* C18: whatever the input, the output of _normalize is strictly ordered by
\* start, each segment ends no later than the next starts, every segment has
\* positive duration, and none is InBed.
C18_OutputDisjointOrdered ==
    normalized # NONE =>
        /\ \A j \in 1..Len(normalized.list) :
             /\ normalized.list[j].end_dt > normalized.list[j].start_dt
             /\ normalized.list[j].stage # "InBed"
        /\ \A j \in 1..(Len(normalized.list) - 1) :
             /\ normalized.list[j].start_dt < normalized.list[j + 1].start_dt
             /\ normalized.list[j].end_dt <= normalized.list[j + 1].start_dt

\* C18 witness: an input holding an InBed segment before an overlapping
\* Awake segment, or two overlapping segments with the later start first, was
\* normalised into a non-empty output.
C18_Witness ==
    /\ normalized # NONE /\ Len(raw) = 2 /\ Len(normalized.list) >= 1
    /\ raw[1].start_dt < raw[2].end_dt /\ raw[2].start_dt < raw[1].end_dt
    /\ \/ raw[1].stage = "InBed"
       \/ raw[2].start_dt < raw[1].start_dt

\* A sequence in normal form: ordered by start, pairwise disjoint, and with
\* no two exactly adjacent segments of one stage.
OrderedDisjointMerged(xs) ==
    \A j \in 1..(Len(xs) - 1) :
        /\ xs[j].start_dt <= xs[j + 1].start_dt
        /\ xs[j].end_dt <= xs[j + 1].start_dt
        /\ ~(xs[j].end_dt = xs[j + 1].start_dt /\ xs[j].stage = xs[j + 1].stage)

\* C19 as stated: _normalize returns every ordered, disjoint, merged
\* sequence unchanged, and normalising its own output changes nothing.
C19_Idempotent ==
    /\ (normalized # NONE /\ OrderedDisjointMerged(raw)) => normalized.list = raw
    /\ renormalized # NONE => renormalized = normalized

\* C19 amended: _normalize returns unchanged every ordered, disjoint, merged
\* sequence of segments that are not InBed and have positive duration, and
\* normalising its own output changes nothing.
C19_IdempotentOnSurviving ==
    /\ ( /\ normalized # NONE /\ OrderedDisjointMerged(raw)
         /\ \A j \in 1..Len(raw) : raw[j].stage # "InBed" /\ raw[j].end_dt > raw[j].start_dt )
       => normalized.list = raw
    /\ renormalized # NONE => renormalized = normalized

\* C19 witness: two adjacent segments of different stages, in order, were
\* normalised and the output normalised again.
C19_Witness ==
    /\ renormalized # NONE
    /\ Len(raw) = 2 /\ raw[1].end_dt = raw[2].start_dt
    /\ raw[1].start_dt < raw[1].end_dt /\ raw[2].start_dt < raw[2].end_dt
    /\ raw[1].stage = "Deep" /\ raw[2].stage = "REM"
    /\ normalized.list = raw

\* The number of sessions build_sleep_sessions returns for two Core segments,
\* the first ending at first_end and the next starting at next_start.
SessionsForPair(first_end, next_start, gap) ==
    Len(build_sleep_sessions(<<Segment(first_end - 1, first_end, "Core"),
                               Segment(next_start, next_start + 1, "Core")>>, gap).list)

\* C20: two surviving segments, the second starting at or after the end of
\* the first, fall into different sessions exactly when the second's start
\* minus the first's end is strictly greater than the gap, and into one
\* session otherwise; with the first ending at 23:00 and the next starting
\* at 02:00 (hours 23 and 26), a gap of 2 hours gives two sessions, a gap of
\* 4 hours one, and a gap of exactly 3 hours one.
C20_GapStrict ==
    ( /\ Len(input) = 2 /\ sessions # NONE
      /\ Surviving(input) = input
      /\ input[1].end_dt <= input[2].start_dt )
    => /\ ~IsError(sessions.result)
       /\ Len(sessions.result.list) =
             IF input[2].start_dt - input[1].end_dt > sessions.gap THEN 2 ELSE 1
       /\ SessionsForPair(23, 26, 2) = 2
       /\ SessionsForPair(23, 26, 4) = 1
       /\ SessionsForPair(23, 26, 3) = 1

\* C20 witness: two segments exactly the gap apart, the gap positive, were
\* grouped into one session.
C20_Witness ==
    /\ sessions # NONE /\ Len(input) = 2 /\ Surviving(input) = input
    /\ sessions.gap > 0
    /\ input[2].start_dt - input[1].end_dt = sessions.gap
    /\ ~IsError(sessions.result) /\ Len(sessions.result.list) = 1

(***************************************************************************)
(* SpecAwake: SleepSession.awakenings.  The instants of this specification *)
(* are half minutes, so that one minute (2), ninety seconds (3) and two    *)
(* minutes (4) are all whole numbers of them.                              *)
(***************************************************************************)
AwakeSegs == 2
MaxTicks == 5

\* timedelta(minutes=2), in half minutes
TWO_MINUTES == 4

awakenings_Strict(sess) ==
    Len(SelectSeq(sess.segments,
                  LAMBDA s : s.stage = "Awake" /\ Duration(s) > TWO_MINUTES))

\* SleepSession.awakenings
awakenings(sess) ==
    Len(SelectSeq(sess.segments,
                  LAMBDA s : s.stage = "Awake" /\ Duration(s) >= TWO_MINUTES))

AwakeChoices ==
    { x \in [start_dt : 0..MaxTicks, end_dt : 0..MaxTicks, stage : {"Awake", "Core"}] :
          x.start_dt < x.end_dt }
    \cup { Segment(0, MaxTicks, "InBed") }

AwakeInit ==
    /\ night \in SeqsUpTo(AwakeChoices, AwakeSegs)
    /\ counted = NONE
    /\ awakeOthersIdle

\* SleepSession.from_segments(night), then a read of .awakenings
CountAwakenings ==
    /\ counted = NONE
    /\ \E sess \in {from_segments(night)} :
          counted' = IF IsError(sess) THEN sess
                     ELSE [session |-> sess, awakenings |-> awakenings(sess)]
    /\ UNCHANGED <<night, awakeFrame>>

AwakeNext == CountAwakenings

SpecAwake == AwakeInit /\ [][AwakeNext]_vars

LongAwake(xs) ==
    { i \in DOMAIN xs : xs[i].stage = "Awake" /\ xs[i].end_dt - xs[i].start_dt >= TWO_MINUTES }

AdjacentMinutes(xs) ==
    /\ Len(xs) = 2
    /\ \E i, j \in 1..2 :
          /\ i # j
          /\ xs[i].stage = "Awake" /\ xs[j].stage = "Awake"
          /\ Duration(xs[i]) = 2 /\ Duration(xs[j]) = 2
          /\ xs[i].end_dt = xs[j].start_dt

LoneNinetySeconds(xs) ==
    Len(xs) = 1 /\ xs[1].stage = "Awake" /\ Duration(xs[1]) = 3

\* C21: the awakening count of a session is the number of Awake segments of
\* the normalized (merged) list that last two minutes or more; two adjacent
\* one-minute Awake inputs become one two-minute segment and count once, a
\* lone ninety-second Awake segment counts as none.
C21_AwakeningsCount ==
    (counted # NONE /\ ~IsError(counted)) =>
        /\ counted.session.segments = _normalize(night)
        /\ counted.awakenings = Cardinality(LongAwake(_normalize(night)))
        /\ AdjacentMinutes(night) =>
              /\ Len(counted.session.segments) = 1
              /\ Duration(counted.session.segments[1]) = TWO_MINUTES
              /\ counted.awakenings = 1
        /\ LoneNinetySeconds(night) => counted.awakenings = 0

C21_Witness ==
    /\ counted # NONE /\ ~IsError(counted)
    /\ AdjacentMinutes(night)
    /\ counted.awakenings = 1

(***************************************************************************)
(* Retention in the reader.  stack[1].children are the top-level elements  *)
(* whose end tag has been handled and which the root still holds; an open  *)
(* top-level element is the frame stack[2].  When the generator is         *)
(* suspended at its yield (line 149) the root holds what it holds before   *)
(* the end tag of the yielded element is handled; _cleanup runs when the   *)
(* consumer asks for the next record, before any further event is read.    *)
(***************************************************************************)
ProcessedPaths == {"type_prefilter", "time_prefilter", "rejected", "yielded"}

\* C22: on each of the four paths of the loop body the processed top-level
\* element is cleared and its earlier siblings leave the root before the next
\* top-level element is processed, so the root never holds more than one
\* already-processed top-level element, however many the document has.
C22_BoundedRetention ==
    (pc = "iterating" /\ stack # <<>>) =>
        /\ Len(stack[1].children) <= 1
        /\ \A i \in DOMAIN stack[1].children :
              stack[1].children[i] = Cleared(stack[1].children[i])
        /\ (last # NONE /\ last.depth = 1 /\ last.outcome \in ProcessedPaths) =>
              stack[1].children = <<Cleared(last.elem)>>

C22_Witness ==
    /\ pc = "iterating" /\ stack # <<>>
    /\ Len(seen) = MaxElems
    /\ last # NONE /\ last.depth = 1 /\ last.outcome = "yielded"
    /\ stack[1].children = <<Cleared(last.elem)>>

(***************************************************************************)
(* Window bounds that do not parse.                                        *)
(***************************************************************************)
\* A text none of the formats of to_datetime (lines 174-198) accepts.
Unparseable(v) ==
    /\ IsStr(v)
    /\ v.str # ""
    /\ \/ ~Known(v.str)
       \/ LET e == Lex(v.str) IN
          IF e.z THEN ~e.iso ELSE ~e.apple /\ ~e.iso /\ ~e.naive

\* The same call with each bound that does not parse left out.
AsIfAbsent(a) ==
    [a EXCEPT !.start = IF Unparseable(a.start) THEN NONE ELSE a.start,
              !.end = IF Unparseable(a.end) THEN NONE ELSE a.end]

NoBoundParses(a) ==
    /\ a.start = NONE \/ Unparseable(a.start)
    /\ a.end = NONE \/ Unparseable(a.end)

\* C23: a bound given as text that does not parse is treated as a bound not
\* given: the invalid-range error is never raised, each element meets the
\* fate it meets in the call without that bound, and when neither bound
\* parses nothing is excluded for its time, records with no derived window
\* included.
C23_UnparseableBoundIgnored ==
    (Unparseable(args.start) \/ Unparseable(args.end)) =>
        /\ pc # "ValueError"
        /\ pc # "created" =>
              (pc = "FileNotFoundError") = (BeginOutcome(AsIfAbsent(args)) = "FileNotFoundError")
        /\ last # NONE =>
              /\ last.outcome = BodyOutcome(last.elem, AsIfAbsent(args))
              /\ NoBoundParses(args) =>
                    /\ last.outcome # "time_prefilter"
                    /\ last.outcome = "rejected" =>
                          ~is_any_of_types(from_element(last.elem), TypesSet(args))
                    /\ TypesSet(args) = NONE =>
                          last.outcome \in {"yielded", "AttributeError"}

C23_Witness ==
    /\ Unparseable(args.start) /\ Unparseable(args.end)
    /\ TypesSet(args) = NONE
    /\ last # NONE /\ last.outcome = "yielded"
    /\ from_element(last.elem).start_dt = NoInstant
    /\ from_element(last.elem).end_dt = NoInstant
    /\ Len(emitted) = Len(seen) /\ Len(seen) > 1

(***************************************************************************)
(* Order and multiplicity of the input of _normalize.                      *)
(***************************************************************************)
InsertAt(seq, k, x) == SubSeq(seq, 1, k - 1) \o <<x>> \o SubSeq(seq, k, Len(seq))

\* The lists made from seq by giving one of its segments once more, at any
\* place, and the list that gives every segment twice.
Repetitions(seq) ==
    { InsertAt(seq, k, seq[i]) : i \in 1..Len(seq), k \in 1..(Len(seq) + 1) }
    \cup { seq \o seq }

\* SpecOrder: the actions of SpecNormalize on the segments of a shorter
\* horizon, every stage and every interval of it.
OrderTime == 2

OrderChoices ==
    { x \in [start_dt : 0..OrderTime, end_dt : 0..OrderTime,
             stage : ValidStages \ {"InBed"}] : x.end_dt > x.start_dt }
    \cup { Segment(0, OrderTime, "InBed"), Segment(1, 1, "Awake") }

OrderInit ==
    /\ raw \in SeqsUpTo(OrderChoices, NormSegs)
    /\ normalized = NONE /\ renormalized = NONE
    /\ normOthersIdle

SpecOrder == OrderInit /\ [][NormNext]_vars

\* C24: _normalize returns the same sequence for every permutation of its
\* input and for every list that repeats some of the input's segments; REM
\* over [1,2) handed in before Core over [0,1) comes out as Core, then REM.
C24_OrderAndMultiplicity ==
    normalized # NONE =>
        /\ \A p \in Reorderings(raw) \cup Repetitions(raw) :
              _normalize(p) = normalized.list
        /\ raw = <<Segment(1, 2, "REM"), Segment(0, 1, "Core")>> =>
              normalized.list = <<Segment(0, 1, "Core"), Segment(1, 2, "REM")>>

C24_Witness ==
    /\ normalized # NONE
    /\ Len(raw) = 2
    /\ raw[1].stage \notin {"InBed", raw[2].stage} /\ raw[2].stage # "InBed"
    /\ raw[2].start_dt < raw[1].start_dt /\ raw[1].start_dt < raw[2].end_dt
    /\ Len(normalized.list) > 1
    /\ \E p \in Reorderings(raw) : p # raw /\ _normalize(p) = normalized.list

(***************************************************************************)
(* Time covered by the input and by the output of _normalize.  The instant *)
(* t stands for the unit interval [t, t+1).                                *)
(***************************************************************************)
InputInstants(xs) == { t \in 0..MaxTime : Covering(xs, t) # {} }

OutputInstants(xs) ==
    { t \in 0..MaxTime : \E j \in 1..Len(xs) : xs[j].start_dt <= t /\ t < xs[j].end_dt }

\* C25: the instants the output segments of _normalize cover are the instants
\* the surviving (non-InBed, positive-duration) input segments cover, and the
\* output durations sum to the measure of the union of those input intervals.
C25_CoverageConserved ==
    normalized # NONE =>
        /\ OutputInstants(normalized.list) = InputInstants(raw)
        /\ SumDurations(normalized.list, 1) = Cardinality(InputInstants(raw))

C25_Witness ==
    /\ normalized # NONE
    /\ Len(raw) = 2
    /\ raw[1].stage # raw[2].stage
    /\ Covering(raw, 1) = {1, 2}
    /\ SumDurations(Surviving(raw), 1) > Cardinality(InputInstants(raw))
    /\ Cardinality(InputInstants(raw)) = MaxTime
    /\ SumDurations(normalized.list, 1) = MaxTime

(***************************************************************************)
(* build_sleep_sessions and the error of an empty session.                 *)
(***************************************************************************)
NoneSurvives(segs) ==
    \A i \in 1..Len(segs) : segs[i].stage = "InBed" \/ Duration(segs[i]) = 0

\* C26: build_sleep_sessions never raises the empty-session error; it returns
\* the empty list exactly when every input segment is InBed or of zero
\* duration, and otherwise each group it forms is non-empty, holds surviving
\* segments only, and becomes a session with a non-empty segment list.
C26_NoEmptySession ==
    sessions # NONE =>
        /\ ~IsError(sessions.result)
        /\ (sessions.result.list = <<>>) = NoneSurvives(input)
        /\ Len(sessions.result.list) = Len(sessions.groups)
        /\ \A g \in 1..Len(sessions.groups) :
              /\ sessions.groups[g] # <<>>
              /\ Surviving(sessions.groups[g]) = sessions.groups[g]
              /\ ~IsError(from_segments(sessions.groups[g]))
              /\ sessions.result.list[g].segments # <<>>

C26_Witness ==
    /\ sessions # NONE
    /\ Len(input) = MaxSegs
    /\ input[1].stage = "InBed"
    /\ ~NoneSurvives(input)
    /\ Len(sessions.groups) = 2
    /\ Len(sessions.result.list) = 2

====
